---------------------------- MODULE Spec2Model ----------------------------
(***************************************************************************)
(* A model of modules/TMDbInterface.py: the blacklist store (a TinyDB      *)
(* table of failed requests), the episode cascade __find_episode and the   *)
(* public operations built on them.                                        *)
(*                                                                         *)
(* Time is counted in ticks; Cooldown ticks stand for the timedelta(days=1)*)
(* of __update_blacklist.  A TinyDB table is modelled as the set of its    *)
(* documents (document ids are not modelled); a document is a record whose *)
(* fields are exactly the keys of the stored dict, so a logo or backdrop   *)
(* document has no 'season' and no 'episode' field.                        *)
(***************************************************************************)
EXTENDS Integers, Sequences, FiniteSets, TLC

VARIABLES
    blacklist,  \* self.__blacklist: the documents of tmdb_blacklist.json
    now,        \* datetime.now().timestamp(), in ticks
    retry,      \* self.preferences.tmdb_retry_count
    last,       \* history: the last operation applied to the store directly
    pc,         \* where the running public operation stands ("idle": none)
    req,        \* the arguments of the running operation
    calls,      \* history: the blacklist test and the remote calls it made
    raised,     \* history: the exceptions the remote client raised in it
    exc,        \* the exception that is propagating, if any
    found,      \* what __find_episode returned, and what was read from it
    idx,        \* the position of a loop over series.seasons
    ret,        \* the value the operation returned
    before      \* history: the blacklist when the operation started

opVars == <<pc, req, calls, raised, exc, found, idx, ret, before>>
vars   == <<blacklist, now, retry, last,
            pc, req, calls, raised, exc, found, idx, ret, before>>

---------------------------------------------------------------------------
(* Bounds of the model *)

MaxTime  == 3    \* the clock runs from 0 to MaxTime
MaxRetry == 1    \* tmdb_retry_count is drawn from 0..MaxRetry
MaxBurst == 3    \* calls counted in one cooldown window (saturating)

(* timedelta(days=1), in ticks *)
Cooldown == 2

---------------------------------------------------------------------------
(* Inputs: query types, series and episode indices *)

QueryTypes   == {"image", "title", "logo", "backdrop"}
SeriesLevel  == {"logo", "backdrop"}
SeriesNames  == {"s1", "s2"}            \* SeriesInfo.full_name
EpisodeKeys  == {[season |-> 1, episode |-> 1], [season |-> 1, episode |-> 2]}
NoEpisode    == [season |-> 0, episode |-> 0]   \* episode_info = None
NoEntry      == [query |-> "none"]              \* TinyDB get() -> None

(* The requests a caller can make of the store: (query type, series, episode),
   with episode_info None for the series-level query types. *)
Requests ==
    [query : {"image", "title"}, series : SeriesNames, episode : EpisodeKeys]
    \cup [query : SeriesLevel, series : SeriesNames, episode : {NoEpisode}]

(* The requests whose failures are recorded when the store is exercised on
   its own: an episode-level and a series-level query of one series and an
   episode-level query of another. *)
StoreRequests ==
    {[query |-> "image", series |-> "s1", episode |-> [season |-> 1, episode |-> 1]],
     [query |-> "logo",  series |-> "s1", episode |-> NoEpisode],
     [query |-> "image", series |-> "s2", episode |-> [season |-> 1, episode |-> 1]]}

---------------------------------------------------------------------------
(* TinyDB *)

(* A query condition: the conjunction of where(field) == value tests. *)
Matches(doc, cond) ==
    \A f \in DOMAIN cond : f \in DOMAIN doc /\ doc[f] = cond[f]

Search(table, cond) == {d \in table : Matches(d, cond)}

(* Table.get(cond): a matching document, None when there is none. *)
Get(table, cond) ==
    IF Search(table, cond) = {} THEN NoEntry
    ELSE CHOOSE d \in Search(table, cond) : TRUE

(* dict.update(fields) on a document *)
Updated(doc, fields) ==
    [f \in DOMAIN doc \cup DOMAIN fields |->
        IF f \in DOMAIN fields THEN fields[f] ELSE doc[f]]

(* Table.upsert(fields, cond): update every matching document, insert
   the fields as a new document when none matches. *)
Upsert(table, fields, cond) ==
    IF Search(table, cond) = {} THEN table \cup {fields}
    ELSE {IF Matches(d, cond) THEN Updated(d, fields) ELSE d : d \in table}

(* Table.remove(cond) *)
Remove(table, cond) == {d \in table : ~Matches(d, cond)}

---------------------------------------------------------------------------
(* The blacklist *)

(* Mutant of __get_condition: the episode index is left out for every
   query type. *)
GetConditionBySeries(query_type, series, episode) ==
    [query |-> query_type, series |-> series]

GetCondition(query_type, series, episode) ==
    IF query_type \in SeriesLevel
    THEN [query |-> query_type, series |-> series]
    ELSE [query |-> query_type, series |-> series,
          season |-> episode.season, episode |-> episode.episode]

Condition(r) == GetCondition(r.query, r.series, r.episode)

(* Mutants of __update_blacklist: the cooldown test dropped; the boundary
   excluded (> for >=). *)
UpdateBlacklistEveryCall(table, series, episode, query_type, t) ==
    LET condition == GetCondition(query_type, series, episode)
        entry     == Get(table, condition)
    IN  IF entry # NoEntry
        THEN Upsert(table, [failures |-> entry.failures + 1,
                            next |-> t + Cooldown], condition)
        ELSE Upsert(table, condition @@ [failures |-> 1, next |-> t + Cooldown],
                    condition)

UpdateBlacklistStrict(table, series, episode, query_type, t) ==
    LET condition == GetCondition(query_type, series, episode)
        entry     == Get(table, condition)
    IN  IF entry # NoEntry
        THEN IF t > entry.next
             THEN Upsert(table, [failures |-> entry.failures + 1,
                                 next |-> t + Cooldown], condition)
             ELSE table
        ELSE Upsert(table, condition @@ [failures |-> 1, next |-> t + Cooldown],
                    condition)

(* Mutant of __update_blacklist: the incremented document is inserted
   beside the one found (insert for upsert). *)
UpdateBlacklistInserting(table, series, episode, query_type, t) ==
    LET condition == GetCondition(query_type, series, episode)
        entry     == Get(table, condition)
    IN  IF entry # NoEntry
        THEN IF t >= entry.next
             THEN table \cup {Updated(entry, [failures |-> entry.failures + 1,
                                              next |-> t + Cooldown])}
             ELSE table
        ELSE Upsert(table, condition @@ [failures |-> 1, next |-> t + Cooldown],
                    condition)

UpdateBlacklistResult(table, series, episode, query_type, t) ==
    LET condition == GetCondition(query_type, series, episode)
        entry     == Get(table, condition)
        later     == t + Cooldown
    IN  IF entry # NoEntry
        THEN IF t >= entry.next
             THEN Upsert(table,
                         [failures |-> entry.failures + 1, next |-> later],
                         condition)
             ELSE table
        ELSE IF query_type \in SeriesLevel
             THEN Upsert(table,
                         [query |-> query_type, series |-> series,
                          failures |-> 1, next |-> later], condition)
             ELSE Upsert(table,
                         [query |-> query_type, series |-> series,
                          season |-> episode.season,
                          episode |-> episode.episode,
                          failures |-> 1, next |-> later], condition)

(* Mutant of __is_blacklisted: the boundary included (<= for <). *)
IsBlacklistedInclusive(table, series, episode, query_type, t, threshold) ==
    LET entry == Get(table, GetCondition(query_type, series, episode))
    IN  IF entry = NoEntry THEN FALSE
        ELSE IF entry.failures > threshold THEN TRUE
        ELSE t <= entry.next

(* Mutant of __is_blacklisted: the failures are not looked at. *)
IsBlacklistedWindowOnly(table, series, episode, query_type, t, threshold) ==
    LET entry == Get(table, GetCondition(query_type, series, episode))
    IN  IF entry = NoEntry THEN FALSE ELSE t < entry.next

(* Mutant of __is_blacklisted: the next time is not looked at. *)
IsBlacklistedIgnoringNext(table, series, episode, query_type, t, threshold) ==
    LET entry == Get(table, GetCondition(query_type, series, episode))
    IN  IF entry = NoEntry THEN FALSE
        ELSE entry.failures > threshold

IsBlacklistedIn(table, series, episode, query_type, t, threshold) ==
    LET entry == Get(table, GetCondition(query_type, series, episode))
    IN  IF entry = NoEntry THEN FALSE
        ELSE IF entry.failures > threshold THEN TRUE
        ELSE t < entry.next

(* Mutant of is_permanently_blacklisted: >= for >. *)
IsPermanentAtThreshold(table, series, episode, query_type, threshold) ==
    LET entry == Get(table, GetCondition(query_type, series, episode))
    IN  IF entry = NoEntry THEN FALSE
        ELSE entry.failures >= threshold

IsPermanentlyBlacklistedIn(table, series, episode, query_type, threshold) ==
    LET entry == Get(table, GetCondition(query_type, series, episode))
    IN  IF entry = NoEntry THEN FALSE
        ELSE entry.failures > threshold

(* Mutant of unblacklist: only the image entries of the series removed. *)
UnblacklistImagesOnly(table, series) ==
    Remove(table, [query |-> "image", series |-> series])

UnblacklistResult(table, series) == Remove(table, [series |-> series])

DeleteBlacklistResult(table) == {}

(* The two queries on the current state *)
IsBlacklisted(r) ==
    IsBlacklistedIn(blacklist, r.series, r.episode, r.query, now, retry)

IsPermanentlyBlacklisted(r) ==
    IsPermanentlyBlacklistedIn(blacklist, r.series, r.episode, r.query, retry)

Entry(r) == Get(blacklist, Condition(r))

---------------------------------------------------------------------------
(* The store on its own: __update_blacklist, unblacklist, delete_blacklist
   and the clock, each applied directly. *)

NoLast   == [op |-> "none"]
NoReq    == [op |-> "none"]
NoRecord == [via |-> "none"]      \* __find_episode -> None
NoRet    == [kind |-> "pending"]  \* the operation has not returned
None     == [kind |-> "None"]     \* the default value of catch_and_log

(* No public operation is running. *)
Idle ==
    /\ pc = "idle" /\ req = NoReq /\ calls = <<>> /\ raised = {}
    /\ exc = "none" /\ found = NoRecord /\ idx = 0 /\ ret = NoRet
    /\ before = {}

Min(a, b) == IF a < b THEN a ELSE b

(* A call writes when there is no entry or the entry's next has passed. *)
Writes(r) == Entry(r) = NoEntry \/ now >= Entry(r).next

(* __update_blacklist(series_info, episode_info, query_type).  The history
   keeps which case the call fell in and, for a run of calls on one key with
   no other store operation between them, the call that opened the window
   (its time and the failure count it found) and the number of calls. *)
UpdateBlacklist(r) ==
    /\ blacklist' = UpdateBlacklistResult(blacklist, r.series, r.episode,
                                          r.query, now)
    /\ last' =
         [op |-> "update", req |-> r,
          case |-> IF Entry(r) = NoEntry THEN "created"
                   ELSE IF now = Entry(r).next THEN "boundary"
                   ELSE IF now > Entry(r).next THEN "elapsed"
                   ELSE "window",
          n   |-> IF Writes(r) THEN 1
                  ELSE IF last.op = "update" /\ last.req = r /\ last.n > 0
                  THEN Min(last.n + 1, MaxBurst) ELSE 0,
          at  |-> IF Writes(r) THEN now
                  ELSE IF last.op = "update" /\ last.req = r THEN last.at
                  ELSE 0,
          pre |-> IF Entry(r) = NoEntry THEN 0
                  ELSE IF Writes(r) THEN Entry(r).failures
                  ELSE IF last.op = "update" /\ last.req = r THEN last.pre
                  ELSE 0]
    /\ UNCHANGED <<now, retry>>
    /\ UNCHANGED opVars

(* TMDbInterface.unblacklist(database_directory, series_info) *)
Unblacklist(series) ==
    /\ blacklist' = UnblacklistResult(blacklist, series)
    /\ last' = [op |-> "purge", series |-> series,
                removed |-> Cardinality(blacklist)
                            - Cardinality(UnblacklistResult(blacklist, series))]
    /\ UNCHANGED <<now, retry>>
    /\ UNCHANGED opVars

(* TMDbInterface.delete_blacklist(database_directory) *)
DeleteBlacklist ==
    /\ blacklist' = DeleteBlacklistResult(blacklist)
    /\ last' = [op |-> "reset", removed |-> Cardinality(blacklist)]
    /\ UNCHANGED <<now, retry>>
    /\ UNCHANGED opVars

(* The clock advances. *)
Tick ==
    /\ now < MaxTime
    /\ now' = now + 1
    /\ UNCHANGED <<blacklist, retry, last>>
    /\ UNCHANGED opVars

StoreInit ==
    /\ blacklist = {}
    /\ now = 0
    /\ retry \in 0..MaxRetry
    /\ last = NoLast
    /\ Idle

StoreNext ==
    \/ \E r \in StoreRequests : UpdateBlacklist(r)
    \/ \E s \in SeriesNames : Unblacklist(s)
    \/ DeleteBlacklist
    \/ Tick

StoreSpec == StoreInit /\ [][StoreNext]_vars

---------------------------------------------------------------------------
(* Images, logos and translated titles *)

NoLanguage == "null"          \* iso_639_1 is None: not localized
NoImage    == [url |-> "None"]

(* preferences.meets_minimum_resolution(width, height), with the configured
   minimum resolution *)
MinWidth  == 10
MinHeight == 7
MeetsMinimumResolution(width, height) ==
    width >= MinWidth /\ height >= MinHeight

(* The loop of __determine_best_image from images[i] on; best is the
   best_image dict with the valid_image flag beside it. *)
RECURSIVE BestImageFrom(_, _, _, _, _)
BestImageFrom(images, i, best, is_source_image, skip_localized) ==
    IF i > Len(images) THEN best
    ELSE LET image  == images[i]
             pixels == image.height * image.width
             score  == image.vote_average
         IN  IF /\ is_source_image
                /\ \/ ~MeetsMinimumResolution(image.width, image.height)
                   \/ skip_localized /\ image.iso_639_1 # NoLanguage
             THEN BestImageFrom(images, i + 1, best,
                                is_source_image, skip_localized)
             ELSE BestImageFrom(images, i + 1,
                    IF \/ pixels > best.pixels
                       \/ pixels = best.pixels /\ score > best.score
                    THEN [index |-> i, pixels |-> pixels, score |-> score,
                          valid |-> TRUE]
                    ELSE [best EXCEPT !.valid = TRUE],
                    is_source_image, skip_localized)

(* Mutant of __determine_best_image: no image is passed over. *)
DetermineBestOfAll(images, is_source_image, skip_localized) ==
    LET best == BestImageFrom(images, 1,
                    [index |-> 1, pixels |-> 0, score |-> 0, valid |-> FALSE],
                    FALSE, FALSE)
    IN  IF best.valid THEN images[best.index] ELSE NoImage

(* Mutant of __determine_best_image: the first image not passed over. *)
DetermineFirstImage(images, is_source_image, skip_localized) ==
    LET kept == {i \in DOMAIN images :
                   is_source_image =>
                     /\ MeetsMinimumResolution(images[i].width,
                                               images[i].height)
                     /\ ~(skip_localized /\ images[i].iso_639_1 # NoLanguage)}
    IN  IF kept = {} THEN NoImage
        ELSE images[CHOOSE i \in kept : \A j \in kept : i <= j]

DetermineBestImage(images, is_source_image, skip_localized) ==
    LET best == BestImageFrom(images, 1,
                    [index |-> 1, pixels |-> 0, score |-> 0, valid |-> FALSE],
                    is_source_image, skip_localized)
    IN  IF best.valid THEN images[best.index] ELSE NoImage

(* The loop of get_series_logo from logos[i] on: the URL returned inside the
   loop (an SVG), or after it the best logo and whether any was valid. *)
RECURSIVE BestLogoFrom(_, _, _, _)
BestLogoFrom(logos, i, best, valid_image) ==
    IF i > Len(logos)
    THEN [url |-> IF valid_image THEN best.url ELSE "None",
          valid |-> valid_image]
    ELSE LET logo == logos[i]
         IN  IF logo.iso_639_1 # "en"
             THEN BestLogoFrom(logos, i + 1, best, valid_image)
             ELSE IF logo.svg
             THEN [url |-> logo.url, valid |-> TRUE]
             ELSE BestLogoFrom(logos, i + 1,
                    IF logo.width * logo.height > best.width * best.height
                    THEN logo ELSE best,
                    TRUE)

BestLogo(logos) == BestLogoFrom(logos, 1, logos[1], FALSE)

(* GENERIC_TITLE_FORMATS, each format as the text before and after {number},
   in ASCII *)
GenericTitleFormats ==
    [ar |-> <<"alhalqa ", "">>,  cs |-> <<"", ". epizoda">>,
     de |-> <<"Episode ", "">>,  en |-> <<"Episode ", "">>,
     es |-> <<"Episodio ", "">>, fr |-> <<"E'pisode ", "">>,
     he |-> <<"perek ", "">>,    hu |-> <<"", ". epizo'd">>,
     id |-> <<"Episode ", "">>,  it |-> <<"Episodio ", "">>,
     ja |-> <<"dai", "wa">>,     ko |-> <<"episodeu ", "">>,
     pl |-> <<"Odcinek ", "">>,  pt |-> <<"Episo'dio ", "">>,
     ro |-> <<"Episodul ", "">>, ru |-> <<"Epizod ", "">>,
     sk |-> <<"Epizo'da ", "">>,  th |-> <<"Episode ", "">>,
     tr |-> <<"", ". Bo:lu:m">>,   uk |-> <<"Seriya ", "">>,
     vi |-> <<"Episode ", "">>,  zh |-> <<"di ", " ji">>]

(* generic.format(number=n) *)
Format(generic, n) == generic[1] \o ToString(n) \o generic[2]

NoNumber == -1    \* abs_number is None

(* Mutant of __is_generic_title: the absolute number is not rendered. *)
IsGenericForEpisodeOnly(title, language_code, episode_number, abs_number) ==
    IF language_code \notin DOMAIN GenericTitleFormats THEN FALSE
    ELSE title = Format(GenericTitleFormats[language_code], episode_number)

(* Mutant of __is_generic_title: no title is generic. *)
NeverGeneric(title, language_code, episode_number, abs_number) == FALSE

IsGenericTitle(title, language_code, episode_number, abs_number) ==
    IF language_code \notin DOMAIN GenericTitleFormats THEN FALSE
    ELSE LET generic == GenericTitleFormats[language_code]
         IN  IF abs_number # NoNumber
             THEN title \in {Format(generic, episode_number),
                             Format(generic, abs_number)}
             ELSE title = Format(generic, episode_number)

(* Mutant of the loop of get_episode_title: a blank title is passed over
   (continue for break). *)
RECURSIVE TranslationPastBlank(_, _, _, _, _)
TranslationPastBlank(translations, i, language_code, episode_number, abs_number) ==
    IF i > Len(translations) THEN [title |-> "", generic |-> FALSE]
    ELSE LET translation == translations[i]
         IN  IF /\ language_code \in {translation.iso_3166_1,
                                      translation.iso_639_1}
                /\ Len(translation.name) > 0
             THEN [title   |-> translation.name,
                   generic |-> IsGenericTitle(translation.name,
                                   language_code, episode_number,
                                   abs_number)]
             ELSE TranslationPastBlank(translations, i + 1, language_code,
                                       episode_number, abs_number)

(* The loop of get_episode_title over episode.translations from
   translations[i] on: the title returned, "" when the loop breaks on a blank
   title or ends, and whether the title found was generic. *)
RECURSIVE TranslationFrom(_, _, _, _, _)
TranslationFrom(translations, i, language_code, episode_number, abs_number) ==
    IF i > Len(translations) THEN [title |-> "", generic |-> FALSE]
    ELSE LET translation == translations[i]
         IN  IF language_code \in {translation.iso_3166_1,
                                   translation.iso_639_1}
             THEN IF Len(translation.name) = 0
                  THEN [title |-> "", generic |-> FALSE]
                  ELSE [title   |-> translation.name,
                        generic |-> IsGenericTitle(translation.name,
                                        language_code, episode_number,
                                        abs_number)]
             ELSE TranslationFrom(translations, i + 1, language_code,
                                  episode_number, abs_number)

---------------------------------------------------------------------------
(* What the remote client can answer *)

MaxSeasons == 2     \* series.seasons holds MaxSeasons seasons

(* The exceptions of tmdbapis; NotFound is a TMDbException. *)
RemoteExceptions == {"NotFound", "TMDbException"}
IsTMDbException(e) == e \in {"NotFound", "TMDbException"}

(* An episode or movie the remote answers with, compared with episode_info:
   whether its id equals episode_info.tmdb_id and whether its title (or an
   alternative title) matches episode_info.title. *)
RemoteRecords == [same_id : BOOLEAN, same_title : BOOLEAN]

Small    == [width |-> 8,  height |-> 6, iso_639_1 |-> NoLanguage,
             vote_average |-> 5, url |-> "small.jpg"]
Large    == [width |-> 12, height |-> 8, iso_639_1 |-> NoLanguage,
             vote_average |-> 1, url |-> "large.jpg"]
LargeFr  == [width |-> 12, height |-> 8, iso_639_1 |-> "fr",
             vote_average |-> 3, url |-> "large.fr.jpg"]
Wide     == [width |-> 16, height |-> 9, iso_639_1 |-> NoLanguage,
             vote_average |-> 2, url |-> "wide.jpg"]

(* episode.stills, movie.backdrops, series.backdrops *)
ImageLists ==
    {<<>>, <<Small>>, <<Small, LargeFr>>, <<LargeFr, Large>>,
     <<Large, Wide, LargeFr>>}

LogoEn    == [iso_639_1 |-> "en", svg |-> FALSE, width |-> 4, height |-> 2,
              url |-> "logo.en.png"]
LogoEnBig == [iso_639_1 |-> "en", svg |-> FALSE, width |-> 8, height |-> 4,
              url |-> "logo.en.big.png"]
LogoEnSvg == [iso_639_1 |-> "en", svg |-> TRUE, width |-> 1, height |-> 1,
              url |-> "logo.en.svg"]
LogoFr    == [iso_639_1 |-> "fr", svg |-> FALSE, width |-> 6, height |-> 3,
              url |-> "logo.fr.png"]

(* series.logos *)
LogoLists ==
    {<<>>, <<LogoFr>>, <<LogoEn, LogoEnBig>>, <<LogoEnBig, LogoEnSvg>>,
     <<LogoFr, LogoEn>>}

TrDe      == [iso_3166_1 |-> "DE", iso_639_1 |-> "de", name |-> "Die Nacht"]
TrDeBlank == [iso_3166_1 |-> "DE", iso_639_1 |-> "de", name |-> ""]
TrDeGen   == [iso_3166_1 |-> "DE", iso_639_1 |-> "de", name |-> "Episode 1"]
TrFr      == [iso_3166_1 |-> "FR", iso_639_1 |-> "fr", name |-> "La nuit"]

(* episode.translations *)
TranslationLists ==
    {<<>>, <<TrFr>>, <<TrFr, TrDe>>, <<TrDeBlank, TrDe>>, <<TrDeGen>>}

---------------------------------------------------------------------------
(* The public operations, step by step.  A step is one strategy of
   __find_episode or one stretch of an operation between two remote calls;
   the remote's answer to each call is chosen freely. *)

E11 == [season |-> 1, episode |-> 1]

(* get_source_image(series_info, episode_info, title_match=...,
   skip_localized_images=...): the fields of the two info objects that the
   operation reads, and its keyword arguments. *)
ImageCalls ==
    [op : {"image"}, series : {"s1"}, episode : {E11},
     series_tmdb : BOOLEAN,      \* series_info.has_id('tmdb_id')
     tvdb : BOOLEAN,             \* episode_info.has_id('tvdb_id')
     imdb : BOOLEAN,             \* episode_info.has_id('imdb_id')
     tmdb : BOOLEAN,             \* episode_info.has_id('tmdb_id')
     abs_number : {NoNumber, 2}, \* episode_info.abs_number
     title_match : BOOLEAN, skip_localized : BOOLEAN]

(* get_episode_title(series_info, episode_info, language_code): it calls
   __find_episode with the default title_match=True. *)
TitleCalls ==
    [op : {"title"}, series : {"s1"}, episode : {E11},
     series_tmdb : BOOLEAN, tvdb : BOOLEAN, imdb : BOOLEAN, tmdb : BOOLEAN,
     abs_number : {NoNumber, 2}, title_match : {TRUE},
     language_code : {"de", "xx"}]

(* get_series_logo(series_info), get_series_backdrop(series_info,
   skip_localized_images=...) *)
LogoCalls ==
    [op : {"logo"}, series : {"s1"}, episode : {NoEpisode}]
BackdropCalls ==
    [op : {"backdrop"}, series : {"s1"}, episode : {NoEpisode},
     skip_localized : BOOLEAN]

LookupCalls == ImageCalls \cup TitleCalls \cup LogoCalls \cup BackdropCalls

(* The blacklist key of a call: series, episode index and query type *)
Key(r) == [query |-> r.op, series |-> r.series, episode |-> r.episode]

(* One step of the running operation: from pc = from to pc = to, with the
   calls made and the remote exceptions raised on the way. *)
Step(from, to, made, thrown) ==
    /\ pc = from
    /\ pc' = to
    /\ calls' = calls \o made
    /\ raised' = raised \cup thrown

(* Mutant of the exits of the lookups: no failure is ever recorded. *)
ExitsWithoutRecord(value, record_failure) ==
    ret' = value /\ blacklist' = blacklist

(* Mutant of the exits of the lookups: an exit that records no failure
   removes the document of the key. *)
ExitsForgetting(value, record_failure) ==
    /\ ret' = value
    /\ blacklist' =
         IF record_failure
         THEN UpdateBlacklistResult(blacklist, req.series, req.episode,
                                    req.op, now)
         ELSE Remove(blacklist,
                     GetCondition(req.op, req.series, req.episode))

(* The operation returns value, after __update_blacklist when a failure is
   to be recorded. *)
Exits(value, record_failure) ==
    /\ ret' = value
    /\ blacklist' =
         IF record_failure
         THEN UpdateBlacklistResult(blacklist, req.series, req.episode,
                                    req.op, now)
         ELSE blacklist

(* Mutant of the lookups' first statement: the blacklist is not read. *)
NotConsulted(r) == <<>>

(* What a lookup has done before its first remote call: __is_blacklisted *)
Consulted(r) == <<"is_blacklisted">>

(* The first statement of the four lookups: return None when the request
   is blacklisted. *)
StartLookup(r) ==
    /\ pc = "idle"
    /\ req' = r
    /\ before' = blacklist
    /\ calls' = Consulted(r)
    /\ IF IsBlacklisted(Key(r))
       THEN pc' = "done" /\ ret' = None
       ELSE pc' = (IF r.op \in SeriesLevel THEN "series" ELSE "tvdb")
            /\ ret' = NoRet
    /\ UNCHANGED <<blacklist, now, retry, last, raised, exc, found, idx>>

(* Mutant of return ep: after a match in the episode's own season the
   seasons of the series are still tried. *)
GoesOnAfterAbsolute(from) == IF from = "absolute" THEN "seasons" ELSE "matched"

(* Mutant of return episode: after a match by TVDb ID the search goes on. *)
GoesOnAfterTvdb(from) == IF from = "tvdb" THEN "imdb" ELSE "matched"

(* return episode: the strategy at pc = from matched and __find_episode
   returns its record at once. *)
ReturnsEpisode(from) == "matched"

(* Mutant of catch_and_log: NotFound is not caught. *)
CatchAndLogGenericOnly(e) ==
    IF e = "TMDbException" THEN "done" ELSE "propagated"

(* __find_episode: query with the episode's TVDb ID.  Every failure inside
   the try (NotFound, no result, any TMDbException) is passed over. *)
ByTvdbId ==
    /\ pc = "tvdb"
    /\ \/ /\ ~req.tvdb
          /\ Step("tvdb", "imdb", <<>>, {})
          /\ UNCHANGED found
       \/ /\ req.tvdb
          /\ Step("tvdb", ReturnsEpisode("tvdb"), <<"find_by_id(tvdb_id)">>, {})
          /\ found' = [via |-> "tvdb", shape |-> "episode"]
       \/ /\ req.tvdb
          /\ \E e \in RemoteExceptions \cup {"IndexError"} :
                Step("tvdb", "imdb", <<"find_by_id(tvdb_id)">>,
                     {e} \cap RemoteExceptions)
          /\ UNCHANGED found
    /\ UNCHANGED <<blacklist, now, retry, last, req, exc, idx, ret, before>>

(* __find_episode: query with the episode's IMDb ID; an episode result is
   taken first, then a movie result. *)
ByImdbId ==
    /\ pc = "imdb"
    /\ \/ /\ ~req.imdb
          /\ Step("imdb", "anchor", <<>>, {})
          /\ UNCHANGED found
       \/ /\ req.imdb
          /\ \E shape \in {"episode", "movie"} :
                /\ Step("imdb", ReturnsEpisode("imdb"),
                        <<"find_by_id(imdb_id)">>, {})
                /\ found' = [via |-> "imdb", shape |-> shape]
       \/ /\ req.imdb
          /\ \E e \in RemoteExceptions \cup {"IndexError"} :
                Step("imdb", "anchor", <<"find_by_id(imdb_id)">>,
                     {e} \cap RemoteExceptions)
          /\ UNCHANGED found
    /\ UNCHANGED <<blacklist, now, retry, last, req, exc, idx, ret, before>>

(* __find_episode: without a series TMDb ID only the movie search is left;
   with one, the series is fetched and a failure ends the search. *)
VerifySeries ==
    /\ pc = "anchor"
    /\ \/ /\ ~req.series_tmdb
          /\ Step("anchor", "movie", <<>>, {})
       \/ /\ req.series_tmdb
          /\ Step("anchor", "index", <<"tv_show">>, {})
       \/ /\ req.series_tmdb
          /\ \E e \in RemoteExceptions :
                Step("anchor", "unmatched", <<"tv_show">>, {e})
    /\ UNCHANGED <<blacklist, now, retry, last, req, exc, found, idx, ret,
                   before>>

(* Mutant of _match_by_index: the TMDb ID is not compared. *)
IndexAcceptsTitleOnly(r, episode) == ~r.title_match \/ episode.same_title

(* _match_by_index accepts the episode at the index when the TMDb ID matches
   or does_match holds. *)
IndexAccepts(r, episode) ==
    LET id_match   == r.tmdb /\ episode.same_id
        does_match == ~r.title_match
                      \/ (r.title_match /\ episode.same_title)
    IN  id_match \/ does_match

(* One use of _match_by_index from pc = from, logged as call, going to
   onward when it returns None: tv_episode or its reload fails (caught), the
   episode is not accepted, or it is accepted and reloaded by the caller,
   outside any try. *)
MatchByIndex(from, call, onward, next_idx) ==
    /\ pc = from
    /\ \/ /\ \E e \in RemoteExceptions :
                Step(from, onward, <<call>>, {e})
          /\ idx' = next_idx
          /\ UNCHANGED <<found, exc>>
       \/ /\ \E episode \in RemoteRecords :
                /\ ~IndexAccepts(req, episode)
                /\ Step(from, onward, <<call>>, {})
          /\ idx' = next_idx
          /\ UNCHANGED <<found, exc>>
       \/ /\ \E episode \in RemoteRecords :
                /\ IndexAccepts(req, episode)
                /\ Step(from, ReturnsEpisode(from), <<call, "reload">>, {})
                /\ found' = [via |-> from, shape |-> "episode",
                             same_id |-> episode.same_id,
                             same_title |-> episode.same_title]
          /\ UNCHANGED <<idx, exc>>
       \/ /\ \E episode \in RemoteRecords, e \in RemoteExceptions :
                /\ IndexAccepts(req, episode)
                /\ Step(from, "raise", <<call, "reload">>, {e})
                /\ exc' = e
          /\ UNCHANGED <<idx, found>>
    /\ UNCHANGED <<blacklist, now, retry, last, req, ret, before>>

(* __find_episode: the season and episode number of episode_info *)
ByIndex == MatchByIndex("index", "tv_episode(index)", "absolute", idx)

(* __find_episode: the absolute number in the episode's own season *)
ByAbsolute ==
    \/ /\ pc = "absolute"
       /\ req.abs_number = NoNumber
       /\ Step("absolute", "gate", <<>>, {})
       /\ UNCHANGED <<blacklist, now, retry, last, req, exc, found, idx, ret,
                      before>>
    \/ /\ pc = "absolute"
       /\ req.abs_number # NoNumber
       /\ MatchByIndex("absolute", "tv_episode(absolute)", "seasons", 1)

(* __find_episode: the absolute number in each season of series.seasons *)
ByAbsoluteInSeason ==
    /\ pc = "seasons"
    /\ MatchByIndex("seasons", "tv_episode(absolute, season)",
                    IF idx < MaxSeasons THEN "seasons" ELSE "gate", idx + 1)

(* __find_episode: with title_match off nothing is left but the movie
   search; with it on every episode of every season is read. *)
TitleGate ==
    /\ \/ /\ pc = "gate" /\ ~req.title_match
          /\ Step("gate", "movie", <<>>, {})
          /\ UNCHANGED idx
       \/ /\ pc = "gate" /\ req.title_match
          /\ Step("gate", "scan", <<>>, {})
          /\ idx' = 1
    /\ UNCHANGED <<blacklist, now, retry, last, req, exc, found, ret, before>>

(* Mutant of the scan: the first episode of a season is taken. *)
ScanAcceptsAny(r, episode) == TRUE

(* The test of the scan: the TMDb ID or the title of the episode matches. *)
ScanAccepts(r, episode) ==
    (r.tmdb /\ episode.same_id) \/ episode.same_title

(* __find_episode: one season of the scan.  season.reload() and the reload
   of the matching episode are outside any try. *)
ScanSeason ==
    /\ pc = "scan"
    /\ \/ /\ \E e \in RemoteExceptions :
                /\ Step("scan", "raise", <<"season.reload">>, {e})
                /\ exc' = e
          /\ UNCHANGED <<idx, found>>
       \/ /\ Step("scan", IF idx < MaxSeasons THEN "scan" ELSE "movie",
                  <<"season.reload">>, {})
          /\ idx' = idx + 1
          /\ UNCHANGED <<found, exc>>
       \/ /\ \E episode \in RemoteRecords :
                /\ ScanAccepts(req, episode)
                /\ Step("scan", ReturnsEpisode("scan"),
                        <<"season.reload", "reload">>, {})
                /\ found' = [via |-> "scan", shape |-> "episode",
                             same_id |-> episode.same_id,
                             same_title |-> episode.same_title]
          /\ UNCHANGED <<idx, exc>>
       \/ /\ \E episode \in RemoteRecords, e \in RemoteExceptions :
                /\ ScanAccepts(req, episode)
                /\ Step("scan", "raise", <<"season.reload", "reload">>, {e})
                /\ exc' = e
          /\ UNCHANGED <<idx, found>>
    /\ UNCHANGED <<blacklist, now, retry, last, req, ret, before>>

(* Mutant of _find_episode_as_movie: the assert is left out. *)
MovieAcceptsAny(r, movie) == TRUE

(* assert id_match or does_title_match *)
MovieAccepts(r, movie) ==
    LET id_match         == r.tmdb /\ movie.same_id
        does_title_match == movie.same_title
    IN  id_match \/ does_title_match

(* _find_episode_as_movie: the first movie found by title, kept when its
   TMDb ID or one of its titles matches; every failure returns None. *)
AsMovie ==
    /\ pc = "movie"
    /\ \/ /\ \E e \in RemoteExceptions \cup {"IndexError"} :
                Step("movie", "unmatched", <<"movie_search">>,
                     {e} \cap RemoteExceptions)
          /\ UNCHANGED found
       \/ /\ \E movie \in RemoteRecords :
                /\ ~MovieAccepts(req, movie)
                /\ Step("movie", "unmatched", <<"movie_search">>, {})
          /\ UNCHANGED found
       \/ /\ \E movie \in RemoteRecords :
                /\ MovieAccepts(req, movie)
                /\ Step("movie", ReturnsEpisode("movie"), <<"movie_search">>,
                        {})
                /\ found' = [via |-> "movie", shape |-> "movie",
                             same_id |-> movie.same_id,
                             same_title |-> movie.same_title]
    /\ UNCHANGED <<blacklist, now, retry, last, req, exc, idx, ret, before>>

(* get_source_image and get_episode_title: __find_episode returned None. *)
NoEpisodeFound ==
    /\ Step("unmatched", "done", <<>>, {})
    /\ Exits(None, TRUE)
    /\ UNCHANGED <<now, retry, last, req, exc, found, idx, before>>

(* get_source_image after __find_episode: the stills of an episode, the
   backdrops of a movie, and the best of them. *)
ChooseImage ==
    /\ pc = "matched" /\ req.op = "image"
    /\ \E images \in ImageLists :
          LET best == IF images = <<>> THEN NoImage
                      ELSE DetermineBestImage(images, TRUE,
                                              req.skip_localized)
          IN  /\ found' = found @@ [images |-> images]
              /\ IF best = NoImage
                 THEN Exits(None, TRUE)
                 ELSE Exits([kind |-> "url", url |-> best.url], FALSE)
    /\ Step("matched", "done", <<>>, {})
    /\ UNCHANGED <<now, retry, last, req, exc, idx, before>>

(* get_episode_title after __find_episode: the translation for
   language_code. *)
ChooseTitle ==
    /\ pc = "matched" /\ req.op = "title"
    /\ \E translations \in TranslationLists :
          LET t == TranslationFrom(translations, 1, req.language_code,
                                   req.episode.episode, req.abs_number)
          IN  /\ found' = found @@ [translations |-> translations]
              /\ IF t.title = "" THEN Exits(None, FALSE)
                 ELSE IF t.generic THEN Exits(None, TRUE)
                 ELSE Exits([kind |-> "title", title |-> t.title], FALSE)
    /\ Step("matched", "done", <<>>, {})
    /\ UNCHANGED <<now, retry, last, req, exc, idx, before>>

(* get_series_logo and get_series_backdrop: the series is fetched; only
   NotFound is handled here. *)
FetchSeries ==
    /\ pc = "series"
    /\ \/ /\ Step("series", "done", <<"tv_show">>, {"NotFound"})
          /\ Exits(None, TRUE)
          /\ UNCHANGED <<exc, found>>
       \/ /\ Step("series", "raise", <<"tv_show">>, {"TMDbException"})
          /\ exc' = "TMDbException"
          /\ UNCHANGED <<blacklist, ret, found>>
       \/ /\ req.op = "logo"
          /\ Step("series", "done", <<"tv_show">>, {})
          /\ \E logos \in LogoLists :
                /\ found' = [via |-> "series", logos |-> logos]
                /\ IF logos = <<>> THEN Exits(None, TRUE)
                   ELSE IF ~BestLogo(logos).valid THEN Exits(None, TRUE)
                   ELSE Exits([kind |-> "url", url |-> BestLogo(logos).url],
                              FALSE)
          /\ UNCHANGED exc
       \/ /\ req.op = "backdrop"
          /\ Step("series", "done", <<"tv_show">>, {})
          /\ \E images \in ImageLists :
                LET best == IF images = <<>> THEN NoImage
                            ELSE DetermineBestImage(images, TRUE,
                                                    req.skip_localized)
                IN  /\ found' = [via |-> "series", images |-> images]
                    /\ IF best = NoImage THEN Exits(None, TRUE)
                       ELSE Exits([kind |-> "url", url |-> best.url], FALSE)
          /\ UNCHANGED exc
    /\ UNCHANGED <<now, retry, last, req, idx, before>>

(* set_series_ids and get_all_episodes *)

(* has_id: the ID is set *)
HasId(id) == id # "None"

(* Mutant of the first test of set_series_ids: it never holds. *)
NeverAllKnown(r) == FALSE

(* series_info.has_ids('tmdb_id', 'tvdb_id', 'imdb_id') *)
HasIds(r) == HasId(r.tmdb_id) /\ HasId(r.tvdb_id) /\ HasId(r.imdb_id)

(* The IDs a SeriesInfo arrives with *)
SeriesIds == [tmdb_id : {"None", "m1"}, tvdb_id : {"None", "v1"},
              imdb_id : {"None", "i1"}]

(* The ID map: empty, an entry for this series' TVDb ID, an entry for its
   name, and both. *)
IdMaps ==
    {{},
     {[name |-> "s2", tvdb_id |-> "v1", tmdb_id |-> "m7"]},
     {[name |-> "s1", tvdb_id |-> "v7", tmdb_id |-> "m7"]},
     {[name |-> "s2", tvdb_id |-> "v1", tmdb_id |-> "m7"],
      [name |-> "s1", tvdb_id |-> "v8", tmdb_id |-> "m8"]}}

(* set_series_ids(series_info); given keeps the IDs of the call. *)
IdsCalls ==
    {[op |-> "ids", series |-> "s1", episode |-> NoEpisode,
      tmdb_id |-> g.tmdb_id, tvdb_id |-> g.tvdb_id, imdb_id |-> g.imdb_id,
      id_map |-> m, given |-> g] : g \in SeriesIds, m \in IdMaps}

(* A series as the remote returns it: imdb_id None and tvdb_id 0 stand for
   an absent ID. *)
SeriesResults == [id : {"m2"}, imdb_id : {"None", "i2"}, tvdb_id : {"0", "v2"}]

(* set_series_ids up to its first remote call: nothing to do, or an ID
   taken from the ID map. *)
StartIds(r) ==
    /\ pc = "idle"
    /\ before' = blacklist
    /\ calls' = <<>>
    /\ LET by_tvdb == Get(r.id_map, [tvdb_id |-> r.tvdb_id])
           by_name == Get(r.id_map, [name |-> r.series])
       IN  IF HasIds(r)
           THEN req' = r /\ pc' = "done" /\ ret' = None
           ELSE IF r.tvdb_id # "None" /\ by_tvdb # NoEntry
           THEN /\ req' = Updated(r, [tmdb_id |-> by_tvdb.tmdb_id])
                /\ pc' = "done" /\ ret' = None
           ELSE IF by_name # NoEntry
           THEN /\ req' = Updated(r, [tvdb_id |-> by_name.tmdb_id,
                                      tmdb_id |-> by_name.tmdb_id])
                /\ pc' = "done" /\ ret' = None
           ELSE req' = r /\ pc' = "ids_tmdb" /\ ret' = NoRet
    /\ UNCHANGED <<blacklist, now, retry, last, raised, exc, found, idx>>

(* Mutant of found = True: after a result by TMDb ID the TVDb ID is still
   looked up. *)
SearchesOnAfterTmdb(from) == IF from = "ids_tmdb" THEN "ids_tvdb" ELSE "ids_set"

(* found = True: every later `if not found` is passed and the IDs are set. *)
WhenFound(from) == "ids_set"

(* One lookup of set_series_ids, made when the ID it needs is known: a
   result, no result, NotFound (passed over) or any other TMDbException
   (not handled here). *)
IdsLookup(from, call, onward, known, may_be_empty) ==
    /\ pc = from
    /\ \/ /\ ~known
          /\ Step(from, onward, <<>>, {})
          /\ UNCHANGED <<found, exc>>
       \/ /\ known
          /\ \E result \in SeriesResults :
                found' = [via |-> from, result |-> result]
          /\ Step(from, WhenFound(from), <<call>>, {})
          /\ UNCHANGED exc
       \/ /\ known /\ may_be_empty
          /\ Step(from, onward, <<call>>, {})
          /\ UNCHANGED <<found, exc>>
       \/ /\ known
          /\ Step(from, onward, <<call>>, {"NotFound"})
          /\ UNCHANGED <<found, exc>>
       \/ /\ known
          /\ Step(from, "raise", <<call>>, {"TMDbException"})
          /\ exc' = "TMDbException"
          /\ UNCHANGED found
    /\ UNCHANGED <<blacklist, now, retry, last, req, idx, ret, before>>

IdsByTmdb ==
    /\ pc = "ids_tmdb"
    /\ IdsLookup("ids_tmdb", "tv_show", "ids_tvdb", HasId(req.tmdb_id), FALSE)

IdsByTvdb ==
    /\ pc = "ids_tvdb"
    /\ IdsLookup("ids_tvdb", "find_by_id(tvdb_id)", "ids_imdb",
                 HasId(req.tvdb_id), TRUE)

IdsByImdb ==
    /\ pc = "ids_imdb"
    /\ IdsLookup("ids_imdb", "find_by_id(imdb_id)", "ids_name",
                 HasId(req.imdb_id), TRUE)

IdsByName == IdsLookup("ids_name", "tv_search", "ids_set", TRUE, TRUE)

(* Mutant of `if found:`: a TMDb ID is set with no result found. *)
IdsSetUnfound ==
    /\ pc = "ids_set"
    /\ req' = IF found = NoRecord THEN Updated(req, [tmdb_id |-> "m2"])
              ELSE Updated(req, [tmdb_id |-> found.result.id])
    /\ pc' = "done"
    /\ ret' = None
    /\ UNCHANGED <<blacklist, now, retry, last, calls, raised, exc, found,
                   idx, before>>

(* set_series_ids: the IDs of the first result are set, but for an IMDb ID
   of None and a TVDb ID of 0. *)
IdsSet ==
    /\ pc = "ids_set"
    /\ req' =
         IF found = NoRecord THEN req
         ELSE LET result == found.result
                  tmdb == [tmdb_id |-> result.id]
                  imdb == IF result.imdb_id # "None"
                          THEN Updated(tmdb, [imdb_id |-> result.imdb_id])
                          ELSE tmdb
                  tvdb == IF result.tvdb_id # "0"
                          THEN Updated(imdb, [tvdb_id |-> result.tvdb_id])
                          ELSE imdb
              IN  Updated(req, tvdb)
    /\ pc' = "done"
    /\ ret' = None
    /\ UNCHANGED <<blacklist, now, retry, last, calls, raised, exc, found,
                   idx, before>>

(* get_all_episodes(series_info) *)
EpisodesCalls ==
    [op : {"episodes"}, series : {"s1"}, episode : {NoEpisode},
     tmdb_id : {"None", "m1"}]

EmptyList == [kind |-> "list", episodes |-> <<>>]

StartEpisodes(r) ==
    /\ pc = "idle"
    /\ req' = r
    /\ before' = blacklist
    /\ calls' = <<>>
    /\ IF r.tmdb_id = "None"
       THEN pc' = "done" /\ ret' = EmptyList
       ELSE pc' = "all_show" /\ ret' = NoRet
    /\ UNCHANGED <<blacklist, now, retry, last, raised, exc, found, idx>>

(* get_all_episodes: the seasons of the series; NotFound returns []. *)
AllShow ==
    /\ pc = "all_show"
    /\ \/ /\ Step("all_show", "done", <<"tv_show">>, {"NotFound"})
          /\ ret' = EmptyList
          /\ UNCHANGED <<found, idx, exc>>
       \/ /\ Step("all_show", "raise", <<"tv_show">>, {"TMDbException"})
          /\ exc' = "TMDbException"
          /\ UNCHANGED <<found, idx, ret>>
       \/ /\ Step("all_show", "done", <<"tv_show">>, {})
          /\ ret' = EmptyList
          /\ found' = [via |-> "series", seasons |-> 0,
                       all_episodes |-> <<>>]
          /\ UNCHANGED <<idx, exc>>
       \/ /\ Step("all_show", "all_season", <<"tv_show">>, {})
          /\ \E n \in 1..MaxSeasons :
                found' = [via |-> "series", seasons |-> n,
                          all_episodes |-> <<>>]
          /\ idx' = 1
          /\ UNCHANGED <<ret, exc>>
    /\ UNCHANGED <<blacklist, now, retry, last, req, before>>

(* get_all_episodes: one season with one episode.  season.reload() is
   outside any try; the episode is skipped when it has not aired or its
   reload raises NotFound, and appended otherwise. *)
AllSeason ==
    /\ pc = "all_season"
    /\ \/ /\ \E e \in RemoteExceptions :
                /\ Step("all_season", "raise", <<"season.reload">>, {e})
                /\ exc' = e
          /\ UNCHANGED <<found, idx, ret>>
       \/ /\ Step("all_season", "raise", <<"season.reload", "reload">>,
                  {"TMDbException"})
          /\ exc' = "TMDbException"
          /\ UNCHANGED <<found, idx, ret>>
       \/ /\ \E outcome \in {"not aired", "NotFound", "appended"} :
             LET made == IF outcome = "not aired" THEN <<"season.reload">>
                         ELSE <<"season.reload", "reload">>
                 thrown == IF outcome = "NotFound" THEN {"NotFound"} ELSE {}
                 all_episodes ==
                     IF outcome = "appended"
                     THEN Append(found.all_episodes,
                                 [season |-> idx, episode |-> 1])
                     ELSE found.all_episodes
             IN  /\ found' = Updated(found, [all_episodes |-> all_episodes])
                 /\ IF idx < found.seasons
                    THEN /\ Step("all_season", "all_season", made, thrown)
                         /\ idx' = idx + 1
                         /\ UNCHANGED ret
                    ELSE /\ Step("all_season", "done", made, thrown)
                         /\ ret' = [kind |-> "list",
                                    episodes |-> all_episodes]
                         /\ UNCHANGED idx
          /\ UNCHANGED exc
    /\ UNCHANGED <<blacklist, now, retry, last, req, before>>

(* The default of the operation's catch_and_log *)
Default(r) == IF r.op = "episodes" THEN EmptyList ELSE None

(* catch_and_log: an uncaught TMDbException is logged and the default is
   returned; anything else goes on to the caller. *)
CatchAndLogTo(e) == IF IsTMDbException(e) THEN "done" ELSE "propagated"

CatchAndLog ==
    /\ pc = "raise"
    /\ pc' = CatchAndLogTo(exc)
    /\ ret' = IF CatchAndLogTo(exc) = "done" THEN Default(req) ELSE ret
    /\ UNCHANGED <<blacklist, now, retry, last, req, calls, raised, exc,
                   found, idx, before>>

(* The operation has returned; the caller goes on. *)
Return ==
    /\ pc = "done"
    /\ pc' = "idle" /\ req' = NoReq /\ calls' = <<>> /\ raised' = {}
    /\ exc' = "none" /\ found' = NoRecord /\ idx' = 0 /\ ret' = NoRet
    /\ before' = {}
    /\ UNCHANGED <<blacklist, now, retry, last>>

LookupSteps ==
    \/ ByTvdbId \/ ByImdbId \/ VerifySeries \/ ByIndex \/ ByAbsolute
    \/ ByAbsoluteInSeason \/ TitleGate \/ ScanSeason \/ AsMovie
    \/ NoEpisodeFound \/ ChooseImage \/ ChooseTitle \/ FetchSeries
    \/ CatchAndLog \/ Return

IdsSteps == IdsByTmdb \/ IdsByTvdb \/ IdsByImdb \/ IdsByName \/ IdsSet

EpisodesSteps == AllShow \/ AllSeason

Init ==
    /\ blacklist = {}
    /\ now = 0
    /\ retry \in 0..MaxRetry
    /\ last = NoLast
    /\ Idle

Next ==
    \/ \E r \in LookupCalls : StartLookup(r)
    \/ \E r \in IdsCalls : StartIds(r)
    \/ \E r \in EpisodesCalls : StartEpisodes(r)
    \/ LookupSteps
    \/ IdsSteps
    \/ EpisodesSteps

Spec == Init /\ [][Next]_vars

---------------------------------------------------------------------------
(* The lookups with the clock and the two administrative operations: calls
   follow one another, and between two calls time may pass and the
   blacklist may be purged or deleted. *)

E12 == [season |-> 1, episode |-> 2]

(* The calls made: the logo of a series, and the image and the title of two
   of its episodes that carry no cross-reference ID while the series has no
   TMDb ID. *)
TimedCalls ==
    LogoCalls
    \cup {r \in [op : {"image"}, series : {"s1"}, episode : {E11, E12},
                 series_tmdb : {FALSE}, tvdb : {FALSE}, imdb : {FALSE},
                 tmdb : {FALSE}, abs_number : {NoNumber},
                 title_match : {TRUE}, skip_localized : {FALSE}] : TRUE}
    \cup {r \in [op : {"title"}, series : {"s1"}, episode : {E11},
                 series_tmdb : {FALSE}, tvdb : {FALSE}, imdb : {FALSE},
                 tmdb : {FALSE}, abs_number : {NoNumber},
                 title_match : {TRUE}, language_code : {"de"}] : TRUE}

(* Time passes between two calls. *)
TickBetween == pc = "idle" /\ Tick

(* unblacklist and delete_blacklist, run between two calls; no history of
   them is kept here. *)
PurgeBetween ==
    /\ pc = "idle"
    /\ blacklist' = UnblacklistResult(blacklist, "s1")
    /\ UNCHANGED <<now, retry, last, opVars>>

ResetBetween ==
    /\ pc = "idle"
    /\ blacklist' = DeleteBlacklistResult(blacklist)
    /\ UNCHANGED <<now, retry, last, opVars>>

TimedInit == Init

TimedNext ==
    \/ \E r \in TimedCalls : StartLookup(r)
    \/ ByTvdbId \/ ByImdbId \/ VerifySeries \/ AsMovie
    \/ NoEpisodeFound \/ ChooseImage \/ ChooseTitle \/ FetchSeries
    \/ CatchAndLog \/ Return
    \/ TickBetween \/ PurgeBetween \/ ResetBetween

TimedSpec == TimedInit /\ [][TimedNext]_vars

---------------------------------------------------------------------------
(* __update_blacklist called by two processes at once on the same key.  Each
   process has its own TinyDB on the same file, and nothing locks the file.
   A process reads the document (get), tests it, and upserts; TinyDB's
   upsert is an update, followed by an insert when the update changed no
   document, and each of the two reads the whole table from the file,
   changes it in memory and writes the whole table back.  Here blacklist is
   the file, req the key, before the file when the two calls began, pc the
   place of each process, and found what each process holds in memory: the
   entry it got and the table it last read.  Documents carry the doc_id
   TinyDB gives them. *)

Callers == {1, 2}

NoLocals == [entry |-> NoEntry, table |-> {}]

(* The fields each process upserts: lines 174-177 for a document found,
   lines 179-194 for a new one. *)
UpsertFields(c) ==
    IF found[c].entry # NoEntry
    THEN [failures |-> found[c].entry.failures + 1, next |-> now + Cooldown]
    ELSE Condition(req) @@ [failures |-> 1, next |-> now + Cooldown]

(* The doc_id of the next document inserted in a table *)
NextId(table) ==
    IF table = {} THEN 1
    ELSE (CHOOSE d \in table : \A e \in table : e.doc_id <= d.doc_id).doc_id + 1

(* The moves of process c *)
Moves(c, to) == pc' = [pc EXCEPT ![c] = to]

RaceFrame == UNCHANGED <<now, retry, last, req, calls, raised, exc, idx, ret,
                         before>>

(* entry = self.__blacklist.get(condition) *)
RaceGet(c) ==
    /\ pc[c] = "get"
    /\ found' = [found EXCEPT ![c].entry = Get(blacklist, Condition(req))]
    /\ Moves(c, "test")
    /\ UNCHANGED blacklist
    /\ RaceFrame

(* if entry is not None: if now >= entry['next']: upsert; else: upsert *)
RaceTest(c) ==
    /\ pc[c] = "test"
    /\ IF found[c].entry # NoEntry /\ now < found[c].entry.next
       THEN Moves(c, "done")
       ELSE Moves(c, "update_read")
    /\ UNCHANGED <<blacklist, found>>
    /\ RaceFrame

(* upsert, the update: the table is read from the file *)
RaceUpdateRead(c) ==
    /\ pc[c] = "update_read"
    /\ found' = [found EXCEPT ![c].table = blacklist]
    /\ Moves(c, "update_write")
    /\ UNCHANGED blacklist
    /\ RaceFrame

(* upsert, the update: the documents matching the condition are updated and
   the table is written back; with none updated the insert follows. *)
RaceUpdateWrite(c) ==
    /\ pc[c] = "update_write"
    /\ blacklist' = {IF Matches(d, Condition(req))
                     THEN Updated(d, UpsertFields(c)) ELSE d :
                       d \in found[c].table}
    /\ IF Search(found[c].table, Condition(req)) # {}
       THEN Moves(c, "done")
       ELSE Moves(c, "insert_read")
    /\ UNCHANGED found
    /\ RaceFrame

(* upsert, the insert: the table is read from the file *)
RaceInsertRead(c) ==
    /\ pc[c] = "insert_read"
    /\ found' = [found EXCEPT ![c].table = blacklist]
    /\ Moves(c, "insert_write")
    /\ UNCHANGED blacklist
    /\ RaceFrame

(* upsert, the insert: the document is added under the next doc_id and the
   table is written back. *)
RaceInsertWrite(c) ==
    /\ pc[c] = "insert_write"
    /\ blacklist' =
         found[c].table
         \cup {UpsertFields(c) @@ [doc_id |-> NextId(found[c].table)]}
    /\ Moves(c, "done")
    /\ UNCHANGED found
    /\ RaceFrame

(* Time passes before the two calls begin. *)
RaceTick ==
    /\ \A c \in Callers : pc[c] = "get"
    /\ now < MaxTime
    /\ now' = now + 1
    /\ UNCHANGED <<blacklist, retry, last, pc, req, calls, raised, exc,
                   found, idx, ret, before>>

(* Both calls have returned; two more begin. *)
RaceAgain ==
    /\ \A c \in Callers : pc[c] = "done"
    /\ pc' = [c \in Callers |-> "get"]
    /\ found' = [c \in Callers |-> NoLocals]
    /\ before' = blacklist
    /\ UNCHANGED <<blacklist, now, retry, last, req, calls, raised, exc, idx,
                   ret>>

RaceInit ==
    /\ blacklist = {}
    /\ now = 0
    /\ retry \in 0..MaxRetry
    /\ last = NoLast
    /\ req \in StoreRequests
    /\ before = {}
    /\ pc = [c \in Callers |-> "get"]
    /\ found = [c \in Callers |-> NoLocals]
    /\ calls = <<>> /\ raised = {} /\ exc = "none" /\ idx = 0 /\ ret = NoRet

RaceNext ==
    \/ \E c \in Callers : RaceGet(c)
    \/ \E c \in Callers : RaceTest(c)
    \/ \E c \in Callers : RaceUpdateRead(c)
    \/ \E c \in Callers : RaceUpdateWrite(c)
    \/ \E c \in Callers : RaceInsertRead(c)
    \/ \E c \in Callers : RaceInsertWrite(c)
    \/ RaceTick
    \/ RaceAgain

RaceSpec == RaceInit /\ [][RaceNext]_vars

---------------------------------------------------------------------------
(* The functions of the interface that compute without the remote or the
   store, each applied to the arguments a caller inside the class can pass:
   the argument is kept in req and the value returned in ret. *)

(* _match_by_index past its try: the episode at the index is returned when
   it is accepted, None otherwise. *)
ApplyMatchByIndex ==
    /\ pc = "idle"
    /\ \E r \in [tmdb : BOOLEAN, title_match : BOOLEAN],
          episode \in RemoteRecords :
          /\ req' = [op |-> "_match_by_index", tmdb |-> r.tmdb,
                     title_match |-> r.title_match, record |-> episode]
          /\ ret' = IF IndexAccepts(r, episode)
                    THEN [kind |-> "episode", record |-> episode]
                    ELSE None
    /\ pc' = "done"
    /\ UNCHANGED <<blacklist, now, retry, last, calls, raised, exc, found,
                   idx, before>>

MaxImages == 3    \* the longest list of images given to the ranker

(* Images of the same area with different votes and languages, one below
   the minimum resolution, one above the others *)
LargeBest == [width |-> 12, height |-> 8, iso_639_1 |-> NoLanguage,
              vote_average |-> 4, url |-> "large.best.jpg"]
Tall      == [width |-> 8, height |-> 12, iso_639_1 |-> NoLanguage,
              vote_average |-> 6, url |-> "tall.jpg"]
Candidates == {Small, Large, LargeFr, LargeBest, Tall, Wide}

(* Every list of up to MaxImages of them, in every order *)
CandidateLists == UNION {[1..n -> Candidates] : n \in 0..MaxImages}

(* __determine_best_image(images, is_source_image=..., skip_localized=...) *)
ApplyDetermineBestImage ==
    /\ pc = "idle"
    /\ \E images \in CandidateLists,
          is_source_image \in BOOLEAN, skip_localized \in BOOLEAN :
          LET best == DetermineBestImage(images, is_source_image,
                                         skip_localized)
          IN  /\ req' = [op |-> "__determine_best_image",
                         images |-> images,
                         is_source_image |-> is_source_image,
                         skip_localized |-> skip_localized]
              /\ ret' = IF best = NoImage THEN None
                        ELSE [kind |-> "image", image |-> best]
    /\ pc' = "done"
    /\ UNCHANGED <<blacklist, now, retry, last, calls, raised, exc, found,
                   idx, before>>

(* Translated titles, language codes and episode numbers *)
Titles == {"Episode 41", "Episode 5", "Episode 1", "Die Nacht",
           "5. epizoda", "dai5wa", ""}
LanguageCodes  == {"de", "cs", "ja", "xx"}
EpisodeNumbers == {1, 5}
AbsNumbers     == {NoNumber, 5, 41}

(* __is_generic_title(title, language_code, episode_info) *)
ApplyIsGenericTitle ==
    /\ pc = "idle"
    /\ \E title \in Titles, language_code \in LanguageCodes,
          episode_number \in EpisodeNumbers, abs_number \in AbsNumbers :
          /\ req' = [op |-> "__is_generic_title", title |-> title,
                     language_code |-> language_code,
                     episode_number |-> episode_number,
                     abs_number |-> abs_number]
          /\ ret' = [kind  |-> "bool",
                     value |-> IsGenericTitle(title, language_code,
                                              episode_number, abs_number)]
    /\ pc' = "done"
    /\ UNCHANGED <<blacklist, now, retry, last, calls, raised, exc, found,
                   idx, before>>

FunctionsInit == Init

FunctionsNext ==
    \/ ApplyMatchByIndex
    \/ ApplyDetermineBestImage
    \/ ApplyIsGenericTitle
    \/ Return

FunctionsSpec == FunctionsInit /\ [][FunctionsNext]_vars

---------------------------------------------------------------------------
(* Properties of the blacklist store *)

(* The records the store holds for the key of request r, read off the
   documents' fields. *)
Records(r) ==
    {d \in blacklist :
        /\ d.query = r.query
        /\ d.series = r.series
        /\ r.query \notin SeriesLevel =>
              /\ "season" \in DOMAIN d /\ d.season = r.episode.season
              /\ "episode" \in DOMAIN d /\ d.episode = r.episode.episode}

(* C1: is_blacklisted is false with no record, true when the failure count
   exceeds the threshold whatever the record's next, and otherwise true
   exactly while now is strictly before the record's next (so false once
   that time has passed, permanently blacklisted or not being another
   matter). *)
C1_IsBlacklisted ==
    \A r \in Requests :
        /\ Records(r) = {} => ~IsBlacklisted(r)
        /\ \A d \in Records(r) :
              /\ d.failures > retry => IsBlacklisted(r)
              /\ d.failures <= retry => (IsBlacklisted(r) <=> now < d.next)

(* A record at or below the threshold whose next has passed: no longer
   blocked, after having been blocked. *)
C1_Witness ==
    \E r \in StoreRequests :
        /\ Records(r) # {}
        /\ \A d \in Records(r) : d.failures <= retry /\ now >= d.next
        /\ ~IsBlacklisted(r)
        /\ last.op = "update" /\ last.req = r

(* C2: is_permanently_blacklisted is true exactly when a record exists for
   the key with failures > threshold, whatever its next and the clock. *)
C2_IsPermanentlyBlacklisted ==
    \A r \in Requests :
        IsPermanentlyBlacklisted(r) <=> \E d \in Records(r) : d.failures > retry

(* A key one failure over the threshold, permanently blacklisted, beside a
   key exactly at the threshold, which is not. *)
C2_Witness ==
    /\ \E r \in StoreRequests :
          /\ IsPermanentlyBlacklisted(r)
          /\ \E d \in Records(r) : d.failures = retry + 1
    /\ \E r \in StoreRequests :
          /\ ~IsPermanentlyBlacklisted(r)
          /\ \E d \in Records(r) : d.failures = retry

(* C3: after two or more calls of __update_blacklist on one key inside one
   cooldown window, the failure count is one more than the first call found
   and next is the one the first call set. *)
C3_OneIncrementPerWindow ==
    (last.op = "update" /\ last.n >= 2) =>
        /\ Cardinality(Records(last.req)) = 1
        /\ \A d \in Records(last.req) :
              /\ d.failures = last.pre + 1
              /\ d.next = last.at + Cooldown

(* MaxBurst calls in one window that opened on an existing record, the
   clock having advanced since the first. *)
C3_Witness ==
    /\ last.op = "update" /\ last.n = MaxBurst
    /\ last.pre >= 1
    /\ now > last.at

(* C4: __update_blacklist at time now creates a record with failures 1 and
   next = now + cooldown when the key has none, and with a record whose next
   is <= now sets failures to old + 1 and next to now + cooldown; at
   now = next is_blacklisted (failures <= threshold) is false and the call
   increments. *)
C4_RecordFailure ==
    /\ (last.op = "update" /\ last.case = "created") =>
           Records(last.req) = {Condition(last.req) @@
                                [failures |-> 1, next |-> last.at + Cooldown]}
    /\ (last.op = "update" /\ last.case \in {"boundary", "elapsed"}) =>
           Records(last.req) = {Condition(last.req) @@
                                [failures |-> last.pre + 1,
                                 next |-> last.at + Cooldown]}
    /\ \A r \in Requests : \A d \in Records(r) :
           (now = d.next /\ d.failures <= retry) => ~IsBlacklisted(r)

(* A call made exactly at the record's next has just incremented it. *)
C4_Witness ==
    /\ last.op = "update" /\ last.case = "boundary"
    /\ now = last.at
    /\ \E d \in Records(last.req) :
          d.failures = last.pre + 1 /\ d.failures >= 2

(* C5: unblacklist removes exactly the documents of the given series and
   leaves every other document as it was; delete_blacklist leaves no
   document. *)
C5_PurgeAndReset ==
    [][/\ \A s \in SeriesNames :
             Unblacklist(s) =>
                 /\ \A d \in blacklist' : d \in blacklist /\ d.series # s
                 /\ \A d \in blacklist : d.series # s => d \in blacklist'
       /\ DeleteBlacklist => blacklist' = {}]_vars

(* A purge that removed the image and the logo record of one series and
   left a record of the other. *)
C5_Witness ==
    /\ last.op = "purge" /\ last.removed = 2
    /\ blacklist # {}
    /\ \A d \in blacklist : d.series # last.series

---------------------------------------------------------------------------
(* Properties of the public operations *)

Lookups == {"image", "title", "logo", "backdrop"}
Cascading == {"image", "title"}

(* The entry the running operation found for its key when it was called *)
EntryBefore == Get(before, GetCondition(req.op, req.series, req.episode))

(* C6: when getSourceImage, getEpisodeTitle, getSeriesLogo or
   getSeriesBackdrop is called for a key that is blacklisted (its entry has
   more failures than the threshold, or its next time has not come), the
   operation makes no remote call, returns None and leaves the blacklist
   as it found it. *)
C6_BlockedLookup ==
    (/\ req.op \in Lookups
     /\ EntryBefore # NoEntry
     /\ (EntryBefore.failures > retry \/ now < EntryBefore.next))
    => /\ calls = <<"is_blacklisted">>
       /\ pc = "done"
       /\ ret = None
       /\ blacklist = before

C6_Witness ==
    /\ req.op = "title"
    /\ pc = "done"
    /\ EntryBefore # NoEntry
    /\ EntryBefore.failures <= retry
    /\ now < EntryBefore.next
    /\ calls = <<"is_blacklisted">>

(* C7, as stated: in every public operation every remote call is preceded
   by a blacklist check. *)
C7_ConsultedEverywhere ==
    calls # <<>> => calls[1] = "is_blacklisted"

(* C7, amended: in getSourceImage, getEpisodeTitle, getSeriesLogo and
   getSeriesBackdrop the blacklist check comes before every remote call;
   resolveSeriesIds and the episode enumeration make their remote calls
   without ever reading the blacklist. *)
C7_ConsultedInLookups ==
    /\ req.op \in Lookups => calls # <<>> /\ calls[1] = "is_blacklisted"
    /\ req.op \in {"ids", "episodes"}
         => \A i \in DOMAIN calls : calls[i] # "is_blacklisted"

C7_Witness ==
    /\ req.op = "image"
    /\ pc = "done"
    /\ Len(calls) >= 3
    /\ calls[1] = "is_blacklisted"

(* C8, as stated: a generic provider failure at any remote call of the four
   lookups, those of the cascade included, makes the operation return None
   and leaves the blacklist unchanged.  Stated here for the operations
   whose only remote call raised such a failure. *)
C8_GenericFailureLeavesBlacklist ==
    (/\ req.op \in Lookups
     /\ pc = "done"
     /\ Len(calls) = 2
     /\ raised = {"TMDbException"})
    => ret = None /\ blacklist = before

(* The IDs of the series of a set_series_ids call *)
Ids(r) == [tmdb_id |-> r.tmdb_id, tvdb_id |-> r.tvdb_id,
           imdb_id |-> r.imdb_id]

(* C9, as stated: whenever the remote raised a provider exception or a
   not-found during one of the five operations, the operation returns its
   default (None, the IDs as they were). *)
C9_DefaultOnAnyFailure ==
    (/\ req.op \in Lookups \cup {"ids"}
     /\ pc = "done"
     /\ raised # {})
    => /\ ret = None
       /\ req.op = "ids" => Ids(req) = req.given

(* C9, amended: no provider exception or not-found ever leaves one of the
   five operations; one that the body of the operation does not handle is
   caught at the boundary, and the operation then returns its default with
   the blacklist and the IDs as they were.  An exception handled inside the
   body (a not-found, and in the cascade any provider exception) is passed
   over and the operation goes on to its next lookup. *)
C9_NeverPropagates ==
    /\ pc # "propagated"
    /\ (pc = "done" /\ exc # "none")
         => /\ ret = Default(req)
            /\ blacklist = before
            /\ req.op = "ids" => Ids(req) = req.given

C9_Witness ==
    /\ req.op = "image"
    /\ pc = "done"
    /\ exc = "NotFound"
    /\ ret = None

(* The place of a remote call in the order of the cascade *)
CallRank(call) ==
    CASE call = "is_blacklisted" -> 0
      [] call = "find_by_id(tvdb_id)" -> 1
      [] call = "find_by_id(imdb_id)" -> 2
      [] call = "tv_show" -> 3
      [] call = "tv_episode(index)" -> 4
      [] call = "tv_episode(absolute)" -> 5
      [] call = "tv_episode(absolute, season)" -> 5
      [] call = "season.reload" -> 6
      [] call = "movie_search" -> 7

(* The place of the strategy that produced a record *)
ViaRank(via) ==
    CASE via = "tvdb" -> 1
      [] via = "imdb" -> 2
      [] via = "index" -> 4
      [] via = "absolute" -> 5
      [] via = "seasons" -> 5
      [] via = "scan" -> 6
      [] via = "movie" -> 7

IsLookupCall(call) == call # "reload"

(* C10: the cascade issues its lookups in the order TVDb ID, IMDb ID,
   series, season and episode index, absolute index, scan of every season,
   movie search; the single-lookup strategies are issued at most once; and
   once a strategy has produced a record no later strategy is queried, so
   the record returned is that of the first strategy that matched. *)
C10_CascadeOrder ==
    req.op \in Cascading =>
      LET issued == SelectSeq(calls, IsLookupCall)
      IN  /\ \A i \in 1..(Len(issued) - 1) :
                CallRank(issued[i]) <= CallRank(issued[i + 1])
          /\ \A i, j \in DOMAIN issued :
                (i < j /\ issued[i] = issued[j])
                  => issued[i] \in {"tv_episode(absolute, season)",
                                    "season.reload"}
          /\ found # NoRecord
               => ViaRank(found.via) = CallRank(issued[Len(issued)])

C10_Witness ==
    /\ req.op = "image"
    /\ pc = "matched"
    /\ found.via = "scan"
    /\ req.tvdb /\ req.imdb /\ req.abs_number # NoNumber
    /\ Len(SelectSeq(calls, IsLookupCall)) >= 7

---------------------------------------------------------------------------
(* Properties of the cascade *)

MovieOnlyCalls ==
    {"is_blacklisted", "find_by_id(tvdb_id)", "find_by_id(imdb_id)",
     "movie_search"}

(* C11: when the series has no TMDb ID, the cascade queries nothing beyond
   the episode's cross-reference IDs but the movie search (no series,
   season or episode lookup); the movie is returned only if its ID equals
   the episode's known TMDb ID or one of its titles matches, and otherwise
   the cascade returns nothing. *)
C11_MovieOnly ==
    (req.op \in Cascading /\ ~req.series_tmdb)
    => /\ \A i \in DOMAIN calls : calls[i] \in MovieOnlyCalls
       /\ found.via \in {"none", "tvdb", "imdb", "movie"}
       /\ found.via = "movie"
            => (req.tmdb /\ found.same_id) \/ found.same_title
       /\ pc = "unmatched"
            => found = NoRecord /\ calls[Len(calls)] = "movie_search"

C11_Witness ==
    /\ req.op = "image"
    /\ ~req.series_tmdb /\ ~req.tvdb /\ ~req.imdb
    /\ pc = "matched"
    /\ found.via = "movie"
    /\ found.same_id /\ ~found.same_title
    /\ calls = <<"is_blacklisted", "movie_search">>

(* The record given to _match_by_index has the ID, the title, of the
   episode asked for *)
SameId    == req.tmdb /\ req.record.same_id
SameTitle == req.record.same_title

(* C12, as stated: the record at the index is accepted if and only if its
   ID equals the episode's known TMDb ID, or title matching is enabled and
   its title matches. *)
C12_AcceptedOnIdOrTitle ==
    (req.op = "_match_by_index" /\ pc = "done")
    => (ret # None <=> (SameId \/ (req.title_match /\ SameTitle)))

(* C12, amended: the record at the index is accepted if and only if its ID
   equals the episode's known TMDb ID, or title matching is disabled, or its
   title matches; with title matching disabled every record found at the
   index is accepted. *)
C12_AcceptedAtIndex ==
    (req.op = "_match_by_index" /\ pc = "done")
    => /\ ret # None <=> (SameId \/ ~req.title_match \/ SameTitle)
       /\ ret # None => ret.record = req.record

C12_Witness ==
    /\ req.op = "_match_by_index"
    /\ pc = "done"
    /\ ~req.title_match
    /\ ~req.record.same_id /\ ~req.record.same_title
    /\ ret # None

(* How often a call was made by the running operation *)
Count(call) == Cardinality({i \in DOMAIN calls : calls[i] = call})

(* Where a call made once was made *)
Position(call) == CHOOSE i \in DOMAIN calls : calls[i] = call

(* C13: the absolute number is looked up only when the episode has one and
   only after the lookup by season and episode number; first in the
   episode's own season, and only when that gives nothing in the seasons of
   the series, one after the other in their order, the first season whose
   episode is accepted giving the record returned. *)
C13_AbsoluteNumber ==
    req.op \in Cascading =>
      LET own  == Count("tv_episode(absolute)")
          each == Count("tv_episode(absolute, season)")
      IN  /\ req.abs_number = NoNumber => own = 0 /\ each = 0
          /\ own <= 1 /\ each <= MaxSeasons
          /\ own = 1 => /\ Count("tv_episode(index)") = 1
                        /\ Position("tv_episode(index)")
                             < Position("tv_episode(absolute)")
                        /\ found.via # "index"
          /\ each > 0 => /\ own = 1
                         /\ \A i \in DOMAIN calls :
                               calls[i] = "tv_episode(absolute, season)"
                                 => Position("tv_episode(absolute)") < i
          /\ found.via = "absolute" => each = 0
          /\ pc = "seasons" => each = idx - 1
          /\ found.via = "seasons" => each = idx

C13_Witness ==
    /\ req.op = "title"
    /\ pc = "matched"
    /\ found.via = "seasons"
    /\ idx = MaxSeasons
    /\ Count("tv_episode(absolute)") = 1
    /\ Count("tv_episode(absolute, season)") = MaxSeasons

(* C14: once the lookups by index have given nothing, with title matching
   disabled no season is scanned and the result of the movie search is
   returned; with it enabled the seasons are scanned in order and the first
   episode whose TMDb ID or title matches is returned, and the movie search
   is made only after every season was scanned without a match. *)
C14_ScanOrMovie ==
    (req.op \in Cascading /\ req.series_tmdb) =>
      LET scanned == Count("season.reload")
          by_index == {"index", "absolute", "seasons"}
      IN  /\ ~req.title_match => scanned = 0 /\ found.via # "scan"
          /\ scanned > 0 => /\ Count("tv_episode(index)") = 1
                            /\ found.via \notin by_index
          /\ Count("movie_search") > 0
                => /\ Count("movie_search") = 1
                   /\ Count("tv_episode(index)") = 1
                   /\ found.via \in {"none", "movie"}
                   /\ scanned = IF req.title_match THEN MaxSeasons ELSE 0
          /\ pc = "scan" => scanned = idx - 1
          /\ found.via = "scan"
                => /\ scanned = idx
                   /\ (req.tmdb /\ found.same_id) \/ found.same_title
          /\ pc = "unmatched" => found = NoRecord

C14_Witness ==
    /\ req.op = "image"
    /\ req.series_tmdb /\ req.title_match
    /\ pc = "matched"
    /\ found.via = "movie"
    /\ Count("season.reload") = MaxSeasons

---------------------------------------------------------------------------
(* Properties of the lookups *)

(* The running lookup found its key blacklisted when it was called *)
Blocked ==
    /\ EntryBefore # NoEntry
    /\ (EntryBefore.failures > retry \/ now < EntryBefore.next)

(* The running lookup has recorded a failure for its key: the store holds
   what __update_blacklist makes of the store found at the call, and a
   record of the key is in it. *)
Recorded ==
    /\ blacklist = UpdateBlacklistResult(before, req.series, req.episode,
                                         req.op, now)
    /\ blacklist # before
    /\ \E doc \in blacklist :
          /\ doc.query = req.op /\ doc.series = req.series
          /\ req.op \in Cascading
                => /\ doc.season = req.episode.season
                   /\ doc.episode = req.episode.episode

(* The operation ran to its end: no exception reached catch_and_log. *)
Completed == pc = "done" /\ exc = "none"

(* C15: get_source_image on a key that is not blacklisted, when it runs to
   its end, returns None and records a failure for the key (image, series,
   season, episode) when the cascade found no record, when the record has no
   images, and when __determine_best_image chose none; in every other case
   it returns the URL of the image chosen and records nothing. *)
C15_SourceImage ==
    (req.op = "image" /\ Completed /\ ~Blocked) =>
      LET nothing ==
            \/ found = NoRecord
            \/ found.images = <<>>
            \/ DetermineBestImage(found.images, TRUE, req.skip_localized)
                  = NoImage
      IN  IF nothing
          THEN ret = None /\ Recorded
          ELSE /\ ret = [kind |-> "url",
                         url  |-> DetermineBestImage(found.images, TRUE,
                                      req.skip_localized).url]
               /\ blacklist = before

C15_Witness ==
    /\ req.op = "image" /\ Completed /\ ~Blocked
    /\ found # NoRecord
    /\ found.shape = "movie"
    /\ found.images = <<Small, LargeFr>>
    /\ req.skip_localized
    /\ ret = None
    /\ Recorded

(* The renderings of the generic title of a language for an episode *)
Renderings(language_code, episode_number, abs_number) ==
    IF language_code \notin DOMAIN GenericTitleFormats THEN {}
    ELSE {Format(GenericTitleFormats[language_code], n) :
            n \in {episode_number, abs_number} \ {NoNumber}}

(* The translations of the record found that are in the language asked for *)
InLanguage ==
    {i \in DOMAIN found.translations :
        req.language_code \in {found.translations[i].iso_3166_1,
                               found.translations[i].iso_639_1}}

FirstInLanguage ==
    found.translations[CHOOSE i \in InLanguage :
                          \A j \in InLanguage : i <= j].name

(* C16: get_episode_title on a key that is not blacklisted, when it runs to
   its end: when the cascade found no record, or the translation found for
   the language is the generic title of that language for the episode's
   number or absolute number, a failure is recorded for the key (title,
   series, season, episode) and None is returned; a translation that is
   neither blank nor generic is returned and nothing is recorded. *)
C16_EpisodeTitle ==
    (req.op = "title" /\ Completed /\ ~Blocked) =>
      /\ found = NoRecord => ret = None /\ Recorded
      /\ (found # NoRecord /\ InLanguage # {} /\ FirstInLanguage # "")
           => IF FirstInLanguage \in Renderings(req.language_code,
                                       req.episode.episode, req.abs_number)
              THEN ret = None /\ Recorded
              ELSE /\ ret = [kind |-> "title", title |-> FirstInLanguage]
                   /\ blacklist = before

C16_Witness ==
    /\ req.op = "title" /\ Completed /\ ~Blocked
    /\ found # NoRecord
    /\ found.translations = <<TrDeGen>>
    /\ req.language_code = "de"
    /\ ret = None
    /\ Recorded

(* The English logos of the series fetched, and the SVGs among them *)
EnglishLogos == {i \in DOMAIN found.logos : found.logos[i].iso_639_1 = "en"}
EnglishSvgs  == {i \in EnglishLogos : found.logos[i].svg}
Area(logo)   == logo.width * logo.height

(* C17, as stated: get_series_logo returns the URL of an English SVG when
   the list holds one, otherwise the URL of the largest English raster
   logo, and when the list holds no English logo it records a failure for
   the key (logo, series) and returns None. *)
C17_EnglishLogo ==
    (req.op = "logo" /\ Completed /\ ~Blocked /\ found # NoRecord) =>
      IF EnglishLogos = {} THEN ret = None /\ Recorded
      ELSE /\ ret # None
           /\ blacklist = before
           /\ IF EnglishSvgs # {}
              THEN \E i \in EnglishSvgs : ret.url = found.logos[i].url
              ELSE \E i \in EnglishLogos :
                     /\ ret.url = found.logos[i].url
                     /\ \A j \in EnglishLogos :
                           Area(found.logos[j]) <= Area(found.logos[i])

---------------------------------------------------------------------------
(* Properties of the ranker and of the generic-title test *)

Ranked == req.op = "__determine_best_image" /\ pc = "done"

(* The images the ranker may choose: all of them, but for a source image
   those of the minimum resolution and, with skip_localized, of no
   language *)
Survives(image) ==
    req.is_source_image
      => /\ image.width >= MinWidth /\ image.height >= MinHeight
         /\ req.skip_localized => image.iso_639_1 = NoLanguage

Survivors == {i \in DOMAIN req.images : Survives(req.images[i])}

(* C18: for source images the ranker never returns an image below the
   minimum width and height, never returns a localized image when
   skip_localized is set, and returns None when every image is filtered
   out, as for an 8x6 image of no language and a 12x8 French one with
   skip_localized and a minimum of 10x7. *)
C18_RankerFilters ==
    (Ranked /\ req.is_source_image) =>
      /\ ret # None
           => /\ ret.image.width >= MinWidth
              /\ ret.image.height >= MinHeight
              /\ req.skip_localized => ret.image.iso_639_1 = NoLanguage
      /\ Survivors = {} => ret = None
      /\ (req.images = <<Small, LargeFr>> /\ req.skip_localized)
           => ret = None

C18_Witness ==
    /\ Ranked /\ req.is_source_image /\ req.skip_localized
    /\ req.images = <<Small, LargeFr>>
    /\ ret = None

(* C19: when an image survives the filters, the ranker returns a survivor
   of the largest area, and of the highest vote among the survivors of that
   area, whatever the list and its order. *)
C19_RankerOrder ==
    (Ranked /\ Survivors # {}) =>
      /\ ret # None
      /\ \E i \in Survivors : req.images[i] = ret.image
      /\ \A i \in Survivors :
            LET image == req.images[i]
            IN  /\ Area(image) <= Area(ret.image)
                /\ Area(image) = Area(ret.image)
                     => image.vote_average <= ret.image.vote_average

C19_Witness ==
    /\ Ranked /\ req.is_source_image /\ ~req.skip_localized
    /\ req.images = <<Large, LargeBest, LargeFr>>
    /\ ret # None
    /\ ret.image = LargeBest

Detected == req.op = "__is_generic_title" /\ pc = "done"

(* C20: a title in a language without a generic format is never generic;
   in a language with one it is generic exactly when it equals the format
   rendered with the episode number or, when there is an absolute number,
   with the absolute number: in de, for episode 5 with absolute number 41,
   "Episode 41" and "Episode 5" are generic and "Die Nacht" is not. *)
C20_GenericTitle ==
    Detected =>
      /\ req.language_code \notin DOMAIN GenericTitleFormats => ~ret.value
      /\ req.language_code \in DOMAIN GenericTitleFormats
           => (ret.value <=> req.title \in Renderings(req.language_code,
                                req.episode_number, req.abs_number))
      /\ (/\ req.language_code = "de"
          /\ req.episode_number = 5
          /\ req.abs_number = 41)
           => (ret.value <=> req.title \in {"Episode 41", "Episode 5"})
      /\ (/\ req.language_code = "cs"
          /\ req.episode_number = 5
          /\ req.abs_number = NoNumber)
           => (ret.value <=> req.title = "5. epizoda")

C20_Witness ==
    /\ Detected
    /\ req.language_code = "de"
    /\ req.episode_number = 5 /\ req.abs_number = 41
    /\ req.title = "Episode 41"
    /\ ret.value

---------------------------------------------------------------------------
(* Properties of set_series_ids *)

(* The place of a remote call in the order of set_series_ids *)
IdsRank(call) ==
    CASE call = "tv_show" -> 1
      [] call = "find_by_id(tvdb_id)" -> 2
      [] call = "find_by_id(imdb_id)" -> 3
      [] call = "tv_search" -> 4

(* The place of the lookup that gave a result *)
IdsViaRank(via) ==
    CASE via = "ids_tmdb" -> 1
      [] via = "ids_tvdb" -> 2
      [] via = "ids_imdb" -> 3
      [] via = "ids_name" -> 4

(* The entries of the ID map for the TVDb ID and the name of the series of
   the call *)
MapByTvdb ==
    IF req.given.tvdb_id = "None" THEN {}
    ELSE {entry \in req.id_map : entry.tvdb_id = req.given.tvdb_id}
MapByName == {entry \in req.id_map : entry.name = req.series}

AllKnown == \A f \in DOMAIN req.given : req.given[f] # "None"

(* C21: set_series_ids looks in the ID map for the known TVDb ID, then for
   the name of the series, and a hit ends it without a remote call;
   otherwise it queries the remote by TMDb ID, by TVDb ID, by IMDb ID (each
   only when known) and at last by name and year, in this order, and makes
   no query once one has given a result. *)
C21_IdsOrder ==
    req.op = "ids" =>
      /\ (~AllKnown /\ MapByTvdb # {})
           => /\ pc = "done" /\ calls = <<>>
              /\ \E entry \in MapByTvdb : req.tmdb_id = entry.tmdb_id
      /\ (~AllKnown /\ MapByTvdb = {} /\ MapByName # {})
           => /\ pc = "done" /\ calls = <<>>
              /\ \E entry \in MapByName : req.tmdb_id = entry.tmdb_id
      /\ \A i \in 1..(Len(calls) - 1) :
            IdsRank(calls[i]) < IdsRank(calls[i + 1])
      /\ Count("tv_show") > 0 => req.given.tmdb_id # "None"
      /\ Count("find_by_id(tvdb_id)") > 0 => req.given.tvdb_id # "None"
      /\ Count("find_by_id(imdb_id)") > 0 => req.given.imdb_id # "None"
      /\ found # NoRecord
           => IdsViaRank(found.via) = IdsRank(calls[Len(calls)])

C21_Witness ==
    /\ req.op = "ids"
    /\ pc = "done"
    /\ found # NoRecord
    /\ found.via = "ids_name"
    /\ calls = <<"tv_show", "find_by_id(imdb_id)", "tv_search">>

(* C22: set_series_ids leaves the three IDs as they were when all three
   were known at the call, whatever the ID map holds and without a remote
   call, and when neither the ID map nor any remote lookup gave a result;
   in both cases it returns normally. *)
C22_IdsUnchanged ==
    (req.op = "ids" /\ pc = "done") =>
      /\ (/\ req.given.tmdb_id # "None"
          /\ req.given.tvdb_id # "None"
          /\ req.given.imdb_id # "None")
           => Ids(req) = req.given /\ calls = <<>> /\ exc = "none"
      /\ (/\ MapByTvdb = {} /\ MapByName = {}
          /\ found = NoRecord /\ exc = "none")
           => Ids(req) = req.given /\ ret = None

C22_Witness ==
    /\ req.op = "ids" /\ pc = "done"
    /\ req.given = [tmdb_id |-> "m1", tvdb_id |-> "v1", imdb_id |-> "i1"]
    /\ MapByTvdb # {}
    /\ Ids(req) = req.given

---------------------------------------------------------------------------
(* Properties of the lookups over time *)

(* The calls of the running lookup that went to the remote service *)
RemoteCalls == SelectSeq(calls, LAMBDA c : c # "is_blacklisted")

(* C23: a lookup whose key has a record made at time T (its next time is
   T + Cooldown) and that is called before that time returns None with no
   remote call; called at or after that time, with no more failures than
   the threshold, it runs to its end with a remote call made; and remote
   calls are made only by a running operation: between two calls none is
   pending. *)
C23_RetryAfterCooldown ==
    /\ pc = "idle" => calls = <<>>
    /\ (req.op \in Lookups /\ EntryBefore # NoEntry) =>
          /\ now < EntryBefore.next
                => pc = "done" /\ ret = None /\ RemoteCalls = <<>>
          /\ (/\ now >= EntryBefore.next
              /\ EntryBefore.failures <= retry
              /\ pc = "done")
                => RemoteCalls # <<>>

(* A lookup called when the cooldown of its record had elapsed has made its
   remote call and returned. *)
C23_Witness ==
    /\ req.op = "image"
    /\ EntryBefore # NoEntry
    /\ now >= EntryBefore.next
    /\ EntryBefore.failures <= retry
    /\ pc = "done"
    /\ RemoteCalls # <<>>

(* The composite key of a document: the query type and the series, with the
   season and the episode for the documents that have them. *)
KeyOf(doc) ==
    IF doc.query \in SeriesLevel
    THEN <<doc.query, doc.series>>
    ELSE <<doc.query, doc.series, doc.season, doc.episode>>

(* C24: after any sequence of lookups, purges and resets that follow one
   another, the blacklist holds at most one document for each key (query
   type, series, season, episode); a logo or backdrop document has no
   season and no episode field, an image or title document has both. *)
C24_OneDocumentPerKey ==
    /\ \A d1, d2 \in blacklist : KeyOf(d1) = KeyOf(d2) => d1 = d2
    /\ \A d \in blacklist :
          /\ d.query \in QueryTypes
          /\ DOMAIN d = IF d.query \in SeriesLevel
                        THEN {"query", "series", "failures", "next"}
                        ELSE {"query", "series", "season", "episode",
                              "failures", "next"}

(* A logo document and an image document of the same series, the image
   document with two failures, are in the store after a failed lookup. *)
C24_Witness ==
    /\ pc = "done" /\ req.op = "image" /\ blacklist # before
    /\ \E d \in blacklist : d.query = "logo" /\ d.series = req.series
    /\ \E d \in blacklist :
          /\ d.query = "image" /\ d.series = req.series
          /\ d.season = req.episode.season
          /\ d.episode = req.episode.episode
          /\ d.failures = 2

(* The composite key of the running lookup *)
ReqKey ==
    IF req.op \in SeriesLevel
    THEN <<req.op, req.series>>
    ELSE <<req.op, req.series, req.episode.season, req.episode.episode>>

(* The documents of the running lookup's own key at the call *)
OwnBefore == {d \in before : KeyOf(d) = ReqKey}

(* C25: a lookup changes no document of another key: every document of
   another key is in the store during and after the lookup exactly as it
   was at the call; and a lookup is stopped at the blacklist only by the
   document of its own key, so that a logo or backdrop failure stops no
   image or title lookup, an image failure stops no title lookup of the
   same episode (nor a title failure an image lookup), and a failure of one
   episode stops no lookup of another. *)
C25_KeysApart ==
    req.op \in Lookups =>
       /\ \A d \in before : KeyOf(d) # ReqKey => d \in blacklist
       /\ \A d \in blacklist : KeyOf(d) # ReqKey => d \in before
       /\ (pc = "done" /\ RemoteCalls = <<>>) =>
             \E d \in OwnBefore : d.failures > retry \/ now < d.next

(* A title lookup has failed and been recorded while the logo of the series,
   the image of the same episode and the image of another episode were all
   within their cooldown. *)
C25_Witness ==
    /\ req.op = "title" /\ pc = "done"
    /\ OwnBefore = {}
    /\ \E d \in blacklist : KeyOf(d) = ReqKey
    /\ \E d \in before :
          d.query = "logo" /\ d.series = req.series /\ now < d.next
    /\ \E d \in before :
          /\ d.query = "image" /\ d.series = req.series /\ now < d.next
          /\ d.season = req.episode.season
          /\ d.episode = req.episode.episode
    /\ \E d \in before :
          /\ d.query = "image" /\ d.series = req.series /\ now < d.next
          /\ d.episode # req.episode.episode

(* The failures the running lookup found for its key at the call, 0 when
   the key had no document *)
FailuresBefore ==
    IF OwnBefore = {} THEN 0 ELSE (CHOOSE d \in OwnBefore : TRUE).failures

(* C26 as stated: every document has between 1 and retry + 1 failures, and
   a lookup that always fails makes at most retry + 1 remote attempts in
   all, so that every attempt that went to the remote service, met no
   exception and came back with None has raised the failures of its key by
   one. *)
C26_EveryFailedAttemptCounted ==
    /\ \A d \in blacklist : 1 <= d.failures /\ d.failures <= retry + 1
    /\ (req.op \in Lookups /\ Completed /\ RemoteCalls # <<>> /\ ret = None)
          => \E d \in blacklist :
                KeyOf(d) = ReqKey /\ d.failures = FailuresBefore + 1

(* C26, amended: every document has between 1 and retry + 1 failures; a
   lookup of a key with more failures than the threshold makes no remote
   call, returns None and leaves the store, at whatever time it is called;
   a lookup changes the store only after a remote call, and then the
   failures of its key have risen by exactly one. So a lookup whose every
   attempt ends in a recorded failure makes at most retry + 1 attempts. *)
C26_FailuresBounded ==
    /\ \A d \in blacklist : 1 <= d.failures /\ d.failures <= retry + 1
    /\ req.op \in Lookups =>
          /\ FailuresBefore > retry =>
                /\ pc = "done" /\ ret = None
                /\ RemoteCalls = <<>>
                /\ blacklist = before
          /\ blacklist # before =>
                /\ RemoteCalls # <<>>
                /\ \E d \in blacklist :
                      KeyOf(d) = ReqKey /\ d.failures = FailuresBefore + 1

(* A lookup of a key with retry + 1 failures, called after the cooldown of
   its document had elapsed, has been stopped at the blacklist. *)
C26_Witness ==
    /\ req.op \in Lookups /\ pc = "done"
    /\ FailuresBefore = retry + 1
    /\ \A d \in OwnBefore : now >= d.next
    /\ RemoteCalls = <<>>

(* Every document of old has a document of its key in new, with no fewer
   failures and no earlier next time. *)
Kept(old, new) ==
    \A d \in old :
       \E e \in new :
          /\ KeyOf(e) = KeyOf(d)
          /\ e.failures >= d.failures
          /\ e.next >= d.next

(* The running lookup has returned an image or a title. *)
Succeeded == pc = "done" /\ ret.kind \notin {"None", "pending"}

(* C27: no step other than unblacklist and delete_blacklist removes a
   document or lowers its failures or its next time; and a lookup that
   returns a value leaves the whole store, the document of its own key
   included, as it found it. *)
C27_NothingForgotten ==
    /\ [][(PurgeBetween \/ ResetBetween) \/ Kept(blacklist, blacklist')]_vars
    /\ [](req.op \in Lookups /\ Succeeded => blacklist = before)

(* A lookup of a key with a document, called after the cooldown, has
   returned a value and the document is in the store as it was. *)
C27_Witness ==
    /\ req.op \in Lookups /\ Succeeded
    /\ OwnBefore # {}
    /\ \A d \in OwnBefore : now >= d.next /\ d \in blacklist

---------------------------------------------------------------------------
(* Properties of the IDs set by set_series_ids *)

(* The IDs of each kind that a SeriesInfo, the ID map and the remote
   service hold *)
TmdbIds == {"m1", "m2", "m7", "m8"}
TvdbIds == {"v1", "v2", "v7", "v8"}
ImdbIds == {"i1", "i2"}

(* C28: during and after set_series_ids each ID of the series is unset or
   an ID of its own kind: the TVDb ID is a TVDb ID, never the 0 that stands
   for an absent one and never the TMDb ID of an entry of the ID map; the
   IMDb ID is an IMDb ID, and is unset only when the series came without
   one; the TMDb ID is a TMDb ID. *)
C28_IdsOfTheirKind ==
    req.op = "ids" =>
       /\ req.tmdb_id \in TmdbIds \cup {"None"}
       /\ req.tvdb_id \in TvdbIds \cup {"None"}
       /\ req.imdb_id \in ImdbIds \cup {"None"}
       /\ req.imdb_id = "None" => req.given.imdb_id = "None"
       /\ req.tvdb_id = "None" => req.given.tvdb_id = "None"

---------------------------------------------------------------------------
(* Properties of the titles that are not recorded *)

(* C29: get_episode_title, when the cascade found a record that has no
   translation in the language asked for, or whose first translation in
   that language is blank (whatever follows it), returns None and leaves
   the blacklist as it found it; the key is then no more blacklisted than
   it was, so that the next call goes to the remote service again. *)
C29_BlankTitleLeavesBlacklist ==
    (/\ req.op = "title" /\ Completed /\ ~Blocked
     /\ found # NoRecord
     /\ (InLanguage = {} \/ FirstInLanguage = ""))
    => /\ ret = None
       /\ blacklist = before
       /\ \A d \in blacklist :
             KeyOf(d) = ReqKey => d.failures <= retry /\ now >= d.next

(* The first German translation of the record found is blank and a second
   one is not: None is returned and nothing is recorded. *)
C29_Witness ==
    /\ req.op = "title" /\ Completed /\ ~Blocked
    /\ found # NoRecord
    /\ found.translations = <<TrDeBlank, TrDe>>
    /\ req.language_code = "de"
    /\ ret = None
    /\ blacklist = before

---------------------------------------------------------------------------
(* Properties of two calls of __update_blacklist at once *)

(* The documents of the key in a table, and the failures the key had when
   the two calls began *)
OfKey(table) == Search(table, Condition(req))

PriorFailures ==
    IF OfKey(before) = {} THEN 0
    ELSE (CHOOSE d \in OfKey(before) :
             \A e \in OfKey(before) : e.failures <= d.failures).failures

(* C30: when two processes have run __update_blacklist for the same key at
   once, however their steps were interleaved, the store holds exactly one
   document of the key, with at most one failure more than the key had
   when the two calls began. *)
C30_OneDocumentAfterRace ==
    (\A c \in Callers : pc[c] = "done") =>
       /\ Cardinality(OfKey(blacklist)) = 1
       /\ \A d \in OfKey(blacklist) : d.failures <= PriorFailures + 1

=============================================================================
